---- MODULE Spec2Model ----
(***************************************************************************)
(* Model of src/tradeSignals.ts: the two polling decision loops of         *)
(* class TradeSignals, waitForBuySignal and waitForSellSignal.             *)
(*                                                                         *)
(* One behaviour is one invocation of one of the two methods (op), with a  *)
(* configuration drawn in Init.  Times are integers (milliseconds in the   *)
(* source).  The comparison against maxSignalWaitTime, a float product in  *)
(* the source, is done exactly: elapsed * 100 > total * fraction.          *)
(***************************************************************************)
EXTENDS Integers, Sequences, FiniteSets, TLC

(* ---- bounds of the model ---- *)
NumCalls == 2         \* invocations in flight together (concurrent model)
MaxWait == 3          \* largest buySignalTimeToWait
MaxInterval == 2      \* largest buySignalPriceInterval / priceCheckInterval
MaxDelay == 1         \* largest time a tick's work, or a sleep's overshoot, takes
MaxLen == 2           \* largest prices.length
MaxDuration == 3      \* largest priceCheckDuration

(* ---- program constants ---- *)
PercentBase == 100    \* the "/ 100" of a percentage
RsiOversold == 30     \* the RSI bound of the entry rule

(* ---- input domains ---- *)
Fractions == {0, 50, 100}
RsiValues == {0, 15, 30}
\* a MACD field: <<>> is undefined (absent), <<v>> is the number v
MacdValues == {<<>>, <<0>>, <<1>>, <<2>>}
\* the signal line may also lie below a MACD line of 0
SignalValues == MacdValues \cup {<<-1>>}
QuoteAmounts == {0, 7, 1000, 1005}
TakeProfits == {0, 10, 33}
AmountsIn == {1, 2}
\* instrument keys: poolKeys.baseMint.toString()
Keys == {"mintA", "mintB"}
NoSnap == [kind |-> "none", len |-> 0, rsi |-> 0, macd |-> <<>>, signal |-> <<>>,
           past1 |-> FALSE, past2 |-> FALSE]

VARIABLES
  op,             \* which method this behaviour invokes: "buy" or "sell"
  amountIn,       \* the amountIn argument of waitForSellSignal (raw amount)
  config,         \* this.config (BotConfig), immutable
  pc,             \* position of the invocation in the method
  now,            \* Date.now()
  startTime,      \* startTime (line 35)
  timesChecked,   \* timesChecked (lines 36, 98)
  pending,        \* the return value a try block left for after the finally
  snap,           \* what the tick in progress saw
  sawData,        \* some tick of this run got a price sequence
  graceLog,       \* the ticks past the grace deadline so far: "none" of them,
                  \* all of them "low" on samples, or one with "enough"
  result,         \* what the invocation returned: "none" until it returns
  exitVia,        \* the return statement taken
  registration,   \* the instrument's state in technicalAnalysisCache
  cacheCalls,     \* calls made to technicalAnalysisCache
  sleeps,         \* sleep() calls made
  slept,          \* sum of the sleep() arguments
  takeProfit,     \* the local takeProfit (line 94), as a raw amount
  amountOut,      \* the last quote (line 107), <<>> if none
  quoteInput,     \* the amountIn of the last computeAmountOut call, <<>> if none
  notifierCalls,  \* calls of messaging.sendTelegramMessage
  notifierFailed, \* the last notifier call failed to deliver
  escaped,        \* an exception left the method
  calls,          \* concurrent model: the invocations, each with its method,
                  \* its instrument key and where it is
  cache           \* concurrent model: technicalAnalysisCache, key -> state

vars == <<op, amountIn, config, pc, now, startTime, timesChecked, pending, snap, sawData,
          graceLog, result, exitVia, registration, cacheCalls, sleeps, slept,
          takeProfit, amountOut, quoteInput, notifierCalls, notifierFailed, escaped,
          calls, cache>>

\* what no step of the single invocation changes, what only waitForBuySignal
\* changes, what only waitForSellSignal changes
fixed == <<op, amountIn, config, calls, cache>>
buyOnly == <<now, startTime, pending, snap, sawData, graceLog>>
sellOnly == <<takeProfit, amountOut, quoteInput, notifierCalls, notifierFailed>>

BuyConfigs ==
  [useTechnicalAnalysis : BOOLEAN,
   buySignalTimeToWait : 0..MaxWait,
   buySignalPriceInterval : 0..MaxInterval,
   buySignalFractionPercentageTimeToWait : Fractions,
   buySignalLowVolumeThreshold : 0..MaxLen,
   priceCheckDuration : {0}, priceCheckInterval : {0},
   quoteAmount : {0}, takeProfit : {0}, autoSellWithoutSellSignal : {FALSE}]

SellConfigs ==
  [useTechnicalAnalysis : {FALSE},
   buySignalTimeToWait : {0}, buySignalPriceInterval : {0},
   buySignalFractionPercentageTimeToWait : {0},
   buySignalLowVolumeThreshold : {0},
   priceCheckDuration : 0..MaxDuration,
   priceCheckInterval : 0..MaxInterval,
   quoteAmount : QuoteAmounts, takeProfit : TakeProfits,
   autoSellWithoutSellSignal : BOOLEAN]

Init ==
  /\ op \in {"buy", "sell"}
  /\ config \in (IF op = "buy" THEN BuyConfigs ELSE SellConfigs)
  /\ amountIn \in (IF op = "buy" THEN {0} ELSE AmountsIn)
  /\ pc = "call"
  /\ now = 0
  /\ startTime = 0
  /\ timesChecked = 0
  /\ pending = "none"
  /\ snap = NoSnap
  /\ sawData = FALSE
  /\ graceLog = "none"
  /\ result = "none"
  /\ exitVia = "none"
  /\ registration \in {"none", "active", "done"}
  /\ cacheCalls = 0
  /\ sleeps = 0
  /\ slept = 0
  /\ takeProfit = 0
  /\ amountOut = <<>>
  /\ quoteInput = <<>>
  /\ notifierCalls = 0
  /\ notifierFailed = FALSE
  /\ escaped = FALSE
  /\ calls = <<>>
  /\ cache = <<>>

(* ---- technicalAnalysisCache ---- *)
addNew(reg) == "active"
markAsDone(reg) == IF reg = "active" THEN "done" ELSE reg

(* ---- waitForBuySignal ---- *)

\* lines 57, 62 with >= for >
PastGraceOrAt(t) ==
  (t - startTime) * PercentBase
     >= config.buySignalTimeToWait * config.buySignalFractionPercentageTimeToWait

\* line 33: maxSignalWaitTime = totalTimeToCheck * (fraction / 100)
\* lines 57, 62: (Date.now() - startTime) > maxSignalWaitTime, at time t
PastGrace(t) ==
  (t - startTime) * PercentBase
     > config.buySignalTimeToWait * config.buySignalFractionPercentageTimeToWait

\* a test for undefined only
TruthyIfPresent(f) == f # <<>>

\* JavaScript truthiness of a number | undefined
Truthy(f) == f # <<>> /\ f[1] # 0

\* line 57
LowVolume(t, len) == PastGrace(t) /\ len < config.buySignalLowVolumeThreshold

\* line 62
NoData(t, rsi, macd) == PastGrace(t) /\ rsi = 0 /\ ~Truthy(macd)

\* line 67 with the cross compared the wrong way round
EntryRuleCrossReversed(rsi, macd, signal) ==
  /\ rsi > 0
  /\ rsi < RsiOversold
  /\ Truthy(macd)
  /\ Truthy(signal)
  /\ macd[1] < signal[1]

\* line 67 without the upper bound on the RSI
EntryRuleNoRsiUpper(rsi, macd, signal) ==
  /\ rsi > 0
  /\ Truthy(macd)
  /\ Truthy(signal)
  /\ macd[1] > signal[1]

\* line 67
EntryRule(rsi, macd, signal) ==
  /\ rsi > 0
  /\ rsi < RsiOversold
  /\ Truthy(macd)
  /\ Truthy(signal)
  /\ macd[1] > signal[1]

\* lines 57-70 with the entry rule tried before the two aborts
TickExitEntryFirst(t1, t2, len, rsi, macd, signal) ==
  IF EntryRule(rsi, macd, signal) THEN "entry"
  ELSE IF LowVolume(t1, len) THEN "lowVolume"
  ELSE IF NoData(t2, rsi, macd) THEN "noData"
  ELSE "none"

\* lines 57-70: which return the try block takes, in the source's order
TickExit(t1, t2, len, rsi, macd, signal) ==
  IF LowVolume(t1, len) THEN "lowVolume"
  ELSE IF NoData(t2, rsi, macd) THEN "noData"
  ELSE IF EntryRule(rsi, macd, signal) THEN "entry"
  ELSE "none"

ExitValue(e) == IF e = "entry" THEN "true" ELSE IF e = "none" THEN "none" ELSE "false"

\* line 79 as a loop that only a decision ends
LoopContinuesForever(t) == TRUE

\* line 79: the do-while condition, read at time t
LoopContinues(t) == (t - startTime) < config.buySignalTimeToWait

\* the clock never needs to pass this in a run of the source's loop
ClockCap == MaxWait + MaxInterval + 2 * MaxDelay + 1

\* line 57, kept over the ticks: a tick is past the grace deadline when the elapsed
\* time read at line 57 is (a tick without prices reads no clock: its own time)
GraceLogAfter(past, enough) ==
  IF ~past THEN graceLog
  ELSE IF enough THEN "enough"
  ELSE IF graceLog = "none" THEN "low" ELSE graceLog

\* line 23 with the early return missing
TechnicalAnalysisAlways == TRUE

\* line 23
TechnicalAnalysisEnabled == config.useTechnicalAnalysis

\* lines 22-37
BuyStart ==
  /\ op = "buy" /\ pc = "call"
  /\ IF ~TechnicalAnalysisEnabled
       THEN /\ result' = "true" /\ exitVia' = "noTA" /\ pc' = "done"
            /\ UNCHANGED <<registration, cacheCalls, startTime>>
       ELSE /\ registration' = addNew(registration)
            /\ cacheCalls' = cacheCalls + 1
            /\ startTime' = now
            /\ pc' = "tick"
            /\ UNCHANGED <<result, exitVia>>
  /\ UNCHANGED <<fixed, sellOnly, now, timesChecked, pending, snap, sawData,
                 graceLog, sleeps, slept, escaped>>

\* lines 72-74 with the exception thrown on
CatchRethrows == "threw"

\* lines 72-74: what the catch block leaves to be returned (nothing: continue)
CatchOutcome == "none"

\* lines 41-74, getPrices or an indicator computation throws: catch, continue
BuyTickThrows ==
  /\ op = "buy" /\ pc = "tick"
  /\ \E t \in now..(now + MaxDelay) :
       /\ now' = t
       /\ graceLog' = GraceLogAfter(PastGrace(t), FALSE)
       /\ cacheCalls' = cacheCalls + 1
       /\ pending' = CatchOutcome
       /\ snap' = [NoSnap EXCEPT !.kind = "threw"]
       /\ pc' = "finally"
  /\ UNCHANGED <<fixed, sellOnly, startTime, timesChecked, sawData, result,
                 exitVia, registration, sleeps, slept, escaped>>

\* lines 41-45, getPrices returns null: continue
BuyTickAbsent ==
  /\ op = "buy" /\ pc = "tick"
  /\ \E t \in now..(now + MaxDelay) :
       /\ now' = t
       /\ graceLog' = GraceLogAfter(PastGrace(t), FALSE)
       /\ cacheCalls' = cacheCalls + 1
       /\ pending' = "none"
       /\ snap' = [NoSnap EXCEPT !.kind = "absent"]
       /\ pc' = "finally"
  /\ UNCHANGED <<fixed, sellOnly, startTime, timesChecked, sawData, result,
                 exitVia, registration, sleeps, slept, escaped>>

\* lines 41-70, a price sequence and its indicators are there
BuyTickSnapshot ==
  /\ op = "buy" /\ pc = "tick"
  /\ \E t1 \in now..(now + MaxDelay), len \in 0..MaxLen, rsi \in RsiValues,
        macd \in MacdValues, signal \in SignalValues :
       \E t2 \in t1..(now + MaxDelay) :
         LET e == TickExit(t1, t2, len, rsi, macd, signal) IN
         /\ now' = (IF e = "lowVolume" THEN t1 ELSE t2)
         /\ cacheCalls' = cacheCalls + 1
         /\ pending' = ExitValue(e)
         /\ exitVia' = (IF e = "none" THEN exitVia ELSE e)
         /\ snap' = [kind |-> "data", len |-> len, rsi |-> rsi, macd |-> macd,
                     signal |-> signal, past1 |-> PastGrace(t1),
                     past2 |-> PastGrace(t2)]
         /\ sawData' = TRUE
         /\ graceLog' = GraceLogAfter(PastGrace(t1),
                                      len >= config.buySignalLowVolumeThreshold)
         /\ pc' = "finally"
  /\ UNCHANGED <<fixed, sellOnly, startTime, timesChecked, result, registration,
                 sleeps, slept, escaped>>

\* lines 75-78, then the return or throw the try block left pending
BuyFinally ==
  /\ op = "buy" /\ pc = "finally"
  /\ timesChecked' = timesChecked + 1
  /\ \E d \in config.buySignalPriceInterval..(config.buySignalPriceInterval + MaxDelay) :
       /\ d >= 1
       /\ now + d <= ClockCap
       /\ now' = now + d
  /\ sleeps' = sleeps + 1
  /\ slept' = slept + config.buySignalPriceInterval
  /\ IF pending = "none"
       THEN /\ pc' = "while"
            /\ snap' = [NoSnap EXCEPT !.kind = snap.kind]
            /\ UNCHANGED <<result, escaped>>
       ELSE /\ pc' = "done"
            /\ result' = pending
            /\ escaped' = (pending = "threw")
            /\ UNCHANGED snap
  /\ pending' = "none"
  /\ UNCHANGED <<fixed, sellOnly, startTime, sawData, graceLog, exitVia,
                 registration, cacheCalls>>

\* line 81
ExhaustedResult == "false"

\* lines 79-81
BuyWhile ==
  /\ op = "buy" /\ pc = "while"
  /\ IF LoopContinues(now)
       THEN /\ pc' = "tick"
            /\ UNCHANGED <<result, exitVia>>
       ELSE /\ pc' = "done"
            /\ result' = ExhaustedResult
            /\ exitVia' = "exhausted"
  /\ snap' = NoSnap
  /\ UNCHANGED <<fixed, sellOnly, now, startTime, timesChecked, pending, sawData,
                 graceLog, registration, cacheCalls, sleeps, slept, escaped>>

(* ---- waitForSellSignal ---- *)

\* lines 92-94 with the division done before the multiplication
TakeProfitTargetDivFirst(q, tp) == q + ((q \div PercentBase) * tp)

\* lines 92-94: quoteAmount + (quoteAmount * takeProfit).numerator / 100, BN division
TakeProfitTarget(q, tp) == q + ((q * tp) \div PercentBase)

\* lines 91, 130 with <= for <
SellLoopContinuesOneMore(n) == n * config.priceCheckInterval <= config.priceCheckDuration

\* lines 91, 130: timesChecked < priceCheckDuration / priceCheckInterval, n = timesChecked
SellLoopContinues(n) == n * config.priceCheckInterval < config.priceCheckDuration

\* line 120 with gte for gt
ReachedTargetOrEqual(out, target) == out >= target

\* line 120: amountOut.gt(takeProfit)
ReachedTarget(out, target) == out > target

\* the quotes the provider may answer with, around the target
QuoteChoices(target) == {q \in {0, target - 1, target, target + 1} : q >= 0}

\* line 87 with && for ||
SellCheckingDisabledBoth ==
  config.priceCheckDuration = 0 /\ config.priceCheckInterval = 0

\* line 87
SellCheckingDisabled ==
  config.priceCheckDuration = 0 \/ config.priceCheckInterval = 0

\* lines 85-89 with markAsDone moved after the early return
MarkDoneCallsAfterReturn(disabled) == IF disabled THEN 0 ELSE 1

\* lines 85-89: the markAsDone calls made, whether or not line 88 returns
MarkDoneCalls(disabled) == 1

\* lines 92-94 with the target taken from the amountIn argument
SellTargetFromAmountIn(amt) == TakeProfitTarget(amt, config.takeProfit)

\* lines 92-94 for a call with amountIn = amt: amt is not read
SellTarget(amt) == TakeProfitTarget(config.quoteAmount, config.takeProfit)

\* lines 84-98
SellStart ==
  /\ op = "sell" /\ pc = "call"
  /\ cacheCalls' = cacheCalls + MarkDoneCalls(SellCheckingDisabled)
  /\ registration' = (IF cacheCalls' > cacheCalls THEN markAsDone(registration)
                                                  ELSE registration)
  /\ IF SellCheckingDisabled
       THEN /\ result' = "true" /\ exitVia' = "disabled" /\ pc' = "done"
            /\ UNCHANGED takeProfit
       ELSE /\ takeProfit' = SellTarget(amountIn)
            /\ pc' = "quote"
            /\ UNCHANGED <<result, exitVia>>
  /\ UNCHANGED <<fixed, buyOnly, timesChecked, sleeps, slept, amountOut, quoteInput,
                 notifierCalls, notifierFailed, escaped>>

\* lines 102-124 and 127-129: a quote arrives
SellQuote ==
  /\ op = "sell" /\ pc = "quote"
  /\ \E q \in QuoteChoices(takeProfit) :
       /\ amountOut' = <<q>>
       /\ quoteInput' = <<amountIn>>
       /\ IF ReachedTarget(q, takeProfit)
            THEN /\ result' = "true" /\ exitVia' = "profit" /\ pc' = "done"
                 /\ UNCHANGED <<sleeps, slept>>
            ELSE /\ sleeps' = sleeps + 1
                 /\ slept' = slept + config.priceCheckInterval
                 /\ pc' = "while"
                 /\ UNCHANGED <<result, exitVia>>
  /\ timesChecked' = timesChecked + 1
  /\ UNCHANGED <<fixed, buyOnly, registration, cacheCalls, takeProfit,
                 notifierCalls, notifierFailed, escaped>>

\* lines 102-113 throw, 125-129: catch, no sleep, timesChecked++
SellQuoteFails ==
  /\ op = "sell" /\ pc = "quote"
  /\ amountOut' = <<>>
  /\ timesChecked' = timesChecked + 1
  /\ pc' = "while"
  /\ UNCHANGED <<fixed, buyOnly, result, exitVia, registration, cacheCalls, sleeps,
                 slept, takeProfit, quoteInput, notifierCalls, notifierFailed,
                 escaped>>

\* line 130
SellWhile ==
  /\ op = "sell" /\ pc = "while"
  /\ pc' = (IF SellLoopContinues(timesChecked) THEN "quote" ELSE "fallback")
  /\ UNCHANGED <<fixed, buyOnly, sellOnly, timesChecked, result, exitVia,
                 registration, cacheCalls, sleeps, slept, escaped>>

\* line 132 with the flag ignored
FallbackNeverSells == FALSE

\* line 132
FallbackSells == config.autoSellWithoutSellSignal

\* lines 132-135: return true, or call the notifier and await it
SellFallback ==
  /\ op = "sell" /\ pc = "fallback"
  /\ IF FallbackSells
       THEN /\ result' = "true" /\ exitVia' = "autosell" /\ pc' = "done"
            /\ UNCHANGED notifierCalls
       ELSE /\ notifierCalls' = notifierCalls + 1
            /\ pc' = "notify"
            /\ UNCHANGED <<result, exitVia>>
  /\ UNCHANGED <<fixed, buyOnly, timesChecked, registration, cacheCalls, sleeps,
                 slept, takeProfit, amountOut, quoteInput, notifierFailed, escaped>>

\* Messaging.sendTelegramMessage: how the promise settles when delivery failed or not
sendTelegramMessage(failed) == "resolved"

\* lines 135-136 with a failed delivery thrown on
AfterNotifyChecksDelivery(settled, failed) ==
  IF settled = "rejected" \/ failed THEN "threw" ELSE "false"

\* lines 135-136: the await, then return false
AfterNotify(settled, failed) == IF settled = "rejected" THEN "threw" ELSE "false"

\* lines 135-136
SellNotified ==
  /\ op = "sell" /\ pc = "notify"
  /\ \E failed \in BOOLEAN :
       /\ notifierFailed' = failed
       /\ result' = AfterNotify(sendTelegramMessage(failed), failed)
       /\ escaped' = (result' = "threw")
  /\ exitVia' = "hold"
  /\ pc' = "done"
  /\ UNCHANGED <<fixed, buyOnly, timesChecked, registration, cacheCalls, sleeps,
                 slept, takeProfit, amountOut, quoteInput, notifierCalls>>

BuyNext == BuyStart \/ BuyTickThrows \/ BuyTickAbsent \/ BuyTickSnapshot
             \/ BuyFinally \/ BuyWhile

SellNext == SellStart \/ SellQuote \/ SellQuoteFails \/ SellWhile
              \/ SellFallback \/ SellNotified

Next == BuyNext \/ SellNext

Spec == Init /\ [][Next]_vars

\* The invocation keeps being scheduled: the event loop runs the call, every
\* getPrices call comes back, the sleep timer fires, the loop condition is read,
\* quotes and the notifier call settle.  A tick that throws or finds prices is
\* enabled exactly when BuyTickAbsent is and is followed by the same BuyFinally,
\* so weak fairness of Progress excludes the same behaviours as weak fairness of
\* Next: those that stop before the method returns.
Progress == BuyStart \/ BuyTickAbsent \/ BuyFinally \/ BuyWhile \/ SellNext

FairSpec == Spec /\ WF_vars(Progress)

(* ---- concurrent invocations on shared instruments ---- *)
(* Several invocations of the two methods run interleaved on one event loop *)
(* and share the cache.  An invocation runs from its call to its first await *)
(* in one step (the cache write of line 27 or line 85 is in it), stays in   *)
(* its poll loop over any number of awaits, and returns.                    *)

ConcConfigs ==
  [useTechnicalAnalysis : BOOLEAN,
   buySignalTimeToWait : {1}, buySignalPriceInterval : {1},
   buySignalFractionPercentageTimeToWait : {50},
   buySignalLowVolumeThreshold : {1},
   priceCheckDuration : {0, 1}, priceCheckInterval : {1},
   quoteAmount : {0}, takeProfit : {0}, autoSellWithoutSellSignal : {FALSE}]

ConcInit ==
  /\ op = "both"
  /\ config \in ConcConfigs
  /\ amountIn = 0
  /\ pc = "call" /\ now = 0 /\ startTime = 0 /\ timesChecked = 0
  /\ pending = "none" /\ snap = NoSnap /\ sawData = FALSE /\ graceLog = "none"
  /\ result = "none" /\ exitVia = "none" /\ registration = "none"
  /\ cacheCalls = 0 /\ sleeps = 0 /\ slept = 0 /\ takeProfit = 0
  /\ amountOut = <<>> /\ quoteInput = <<>> /\ notifierCalls = 0
  /\ notifierFailed = FALSE /\ escaped = FALSE
  /\ calls \in [1..NumCalls ->
                  [op : {"buy", "sell"}, key : Keys, pc : {"idle"},
                   overlapped : {FALSE}]]
  /\ cache = [k \in Keys |-> "none"]

single == <<op, amountIn, config, pc, now, startTime, timesChecked, pending, snap,
            sawData, graceLog, result, exitVia, registration, cacheCalls, sleeps,
            slept, takeProfit, amountOut, quoteInput, notifierCalls,
            notifierFailed, escaped>>

\* a waitForBuySignal on key k is in its poll loop (lines 39-79)
BuyWaitActive(k) ==
  \E j \in 1..NumCalls :
    calls[j].op = "buy" /\ calls[j].key = k /\ calls[j].pc = "polling"

\* lines 22-37, up to the first sleep: addNew is called whatever the cache holds
ConcBuyCall(i) ==
  /\ calls[i].op = "buy" /\ calls[i].pc = "idle"
  /\ IF ~TechnicalAnalysisEnabled
       THEN /\ calls' = [calls EXCEPT ![i].pc = "done"]
            /\ UNCHANGED cache
       ELSE /\ calls' = [calls EXCEPT ![i].pc = "polling"]
            /\ cache' = [cache EXCEPT ![calls[i].key] = addNew(@)]
  /\ UNCHANGED single

\* lines 59, 64, 69, 81: the poll loop ends; nothing is written to the cache
ConcBuyReturn(i) ==
  /\ calls[i].op = "buy" /\ calls[i].pc = "polling"
  /\ calls' = [calls EXCEPT ![i].pc = "done"]
  /\ UNCHANGED <<single, cache>>

\* lines 84-102, up to the first await: markAsDone is called whatever else runs
ConcSellCall(i) ==
  /\ calls[i].op = "sell" /\ calls[i].pc = "idle"
  /\ cache' = [cache EXCEPT ![calls[i].key] = markAsDone(@)]
  /\ calls' = [calls EXCEPT
                 ![i].pc = IF SellCheckingDisabled THEN "done" ELSE "polling",
                 ![i].overlapped = BuyWaitActive(calls[i].key)]
  /\ UNCHANGED single

\* lines 121, 133, 136
ConcSellReturn(i) ==
  /\ calls[i].op = "sell" /\ calls[i].pc = "polling"
  /\ calls' = [calls EXCEPT ![i].pc = "done"]
  /\ UNCHANGED <<single, cache>>

ConcNext ==
  \E i \in 1..NumCalls :
    ConcBuyCall(i) \/ ConcBuyReturn(i) \/ ConcSellCall(i) \/ ConcSellReturn(i)

ConcSpec == ConcInit /\ [][ConcNext]_vars

(* ======================= waitForBuySignal: claims ======================= *)

\* the tick in progress, or the tick the invocation returned from, computed an
\* indicator snapshot with 0 < rsi < 30, both MACD fields present, macd > signal
SignalSeen ==
  /\ op = "buy" /\ pc \in {"finally", "done"}
  /\ snap.kind = "data"
  /\ snap.rsi > 0 /\ snap.rsi < RsiOversold
  /\ snap.macd # <<>> /\ snap.signal # <<>>
  /\ snap.macd[1] > snap.signal[1]

\* that tick returns true: the return is pending over the finally, then made
ReturnsTrueOnTick ==
  IF pc = "finally" THEN pending = "true" ELSE result = "true" /\ exitVia = "entry"

\* C1 as stated: on a tick whose snapshot has 0 < rsi < 30, both MACD fields
\* present and macdLine > signalLine, waitForBuySignal returns true on that tick,
\* whatever the elapsed time and the sample count.
C1_AnySignalTickReturnsTrue == SignalSeen => ReturnsTrueOnTick

\* C1 amended: such a tick returns true when moreover both MACD fields are
\* non-zero and the low-volume abort does not apply on it (the elapsed time read
\* at line 57 is within the grace deadline or the sample count reaches the
\* threshold); when the low-volume abort applies the tick returns false.
C1_SignalTickReturnsTrueUnlessLowVolume ==
  SignalSeen =>
    IF snap.past1 /\ snap.len < config.buySignalLowVolumeThreshold
      THEN (IF pc = "finally" THEN pending = "false" ELSE result = "false")
      ELSE (snap.macd[1] # 0 /\ snap.signal[1] # 0) => ReturnsTrueOnTick

C1_Witness ==
  /\ SignalSeen /\ pc = "done" /\ result = "true"
  /\ snap.past1 /\ timesChecked >= 2
  /\ config.buySignalLowVolumeThreshold > 0

\* C2: with technical analysis enabled, true is returned only from a tick whose
\* snapshot has 0 < rsi < 30, both MACD fields present and macdLine > signalLine:
\* never from a tick without prices, a failed tick, or the end of the loop.
C2_TrueOnlyOnFullSignal ==
  (op = "buy" /\ config.useTechnicalAnalysis /\ (result = "true" \/ pending = "true"))
    => /\ SignalSeen
       /\ exitVia = "entry"
       /\ pc = "done" => result = "true"

C2_Witness ==
  /\ op = "buy" /\ config.useTechnicalAnalysis /\ pc = "done" /\ result = "true"
  /\ sleeps >= 2

\* C7: a tick of waitForBuySignal that throws decides nothing and lets no
\* exception out, and the loop goes on from it as from a tick without a signal:
\* the finally counts the tick and sleeps, then the loop condition is read.
NoOpTickStep ==
  /\ pc' = "while" /\ result' = "none" /\ ~escaped' /\ exitVia' = exitVia
  /\ timesChecked' = timesChecked + 1
  /\ sleeps' = sleeps + 1
  /\ now' >= now + config.buySignalPriceInterval

C7_FailedTickIsNoOp ==
  [][/\ (op = "buy" /\ pc = "finally" /\ snap.kind = "threw") => NoOpTickStep
     /\ (op = "buy" /\ pc = "finally" /\ snap.kind # "threw" /\ pending = "none")
          => NoOpTickStep
     /\ op = "buy" => ~escaped' /\ result' # "threw"]_vars

C7_Witness ==
  /\ op = "buy" /\ pc = "while" /\ snap.kind = "threw" /\ LoopContinues(now)
  /\ timesChecked >= 2 /\ result = "none" /\ ~escaped

\* C9: a run with technical analysis enabled that has ticks past the grace
\* deadline, none of them with a sample count reaching
\* buySignalLowVolumeThreshold, returns false.
C9_LowVolumePastGraceIsFalse ==
  (op = "buy" /\ config.useTechnicalAnalysis /\ graceLog = "low")
    => /\ result # "true" /\ pending # "true"
       /\ pc = "done" => result = "false"

C9_Witness ==
  /\ op = "buy" /\ pc = "done" /\ graceLog = "low" /\ result = "false"
  /\ SignalSeen /\ exitVia = "lowVolume"

\* C10: with useTechnicalAnalysis false, waitForBuySignal returns true in its
\* first step, calls no method of the price cache, does not sleep, and leaves
\* the registration as it was.
C10_NoTechnicalAnalysisTouchesNothing ==
  [][(op = "buy" /\ ~config.useTechnicalAnalysis) =>
       /\ pc' = "done" /\ result' = "true"
       /\ registration' = registration
       /\ cacheCalls' = 0 /\ sleeps' = 0 /\ slept' = 0]_vars

C10_Witness ==
  /\ op = "buy" /\ ~config.useTechnicalAnalysis /\ pc = "done" /\ result = "true"
  /\ registration = "active" /\ cacheCalls = 0 /\ sleeps = 0

\* C8: every invocation of waitForBuySignal returns a decision, also when every
\* tick fails or finds no prices, and a loop that ran out of time returns false.
C8_BuyAlwaysReturns ==
  /\ (op = "buy") ~> (pc = "done" /\ result \in {"true", "false"})
  /\ [](exitVia = "exhausted" => (pc = "done" /\ result = "false"))

C8_Witness ==
  /\ op = "buy" /\ pc = "done" /\ exitVia = "exhausted" /\ result = "false"
  /\ ~sawData /\ timesChecked >= 2

\* C16 as stated: when the entry rule fires on a tick, true is returned with no
\* sleep and no further call of the price cache between the tick and the return.
C16_EntryReturnsWithoutSleep ==
  [][(op = "buy" /\ pc = "finally" /\ pending = "true")
       => (sleeps' = sleeps /\ cacheCalls' = cacheCalls)]_vars

\* the tick in progress returns false from inside the loop
AbortsOnTick == op = "buy" /\ pc = "finally" /\ pending = "false"

\* the clock read that decided the tick (line 57 or line 62) is strictly past
\* buySignalTimeToWait * fraction / 100
ElapsedPastGrace ==
  (now - startTime) * PercentBase
     > config.buySignalTimeToWait * config.buySignalFractionPercentageTimeToWait

\* C17 as stated: false is returned from inside the loop only on a tick with a
\* price sequence, strictly past the grace deadline, with the sample count below
\* the threshold or rsi = 0 and the MACD line absent.
C17_AbortOnlyLowVolumeOrMacdAbsent ==
  AbortsOnTick =>
    /\ snap.kind = "data"
    /\ ElapsedPastGrace
    /\ \/ snap.len < config.buySignalLowVolumeThreshold
       \/ snap.rsi = 0 /\ snap.macd = <<>>

\* C17 amended: as stated, with "the MACD line absent or equal to 0" for "MACD
\* absent"; and false for a loop out of time comes no earlier than
\* buySignalTimeToWait.
C17_AbortOnlyLowVolumeOrMacdFalsy ==
  /\ AbortsOnTick =>
       /\ snap.kind = "data"
       /\ ElapsedPastGrace
       /\ \/ snap.len < config.buySignalLowVolumeThreshold
          \/ snap.rsi = 0 /\ (snap.macd = <<>> \/ snap.macd[1] = 0)
  /\ (op = "buy" /\ pc = "finally" /\ snap.kind \in {"absent", "threw"})
       => pending = "none"
  /\ (op = "buy" /\ exitVia = "exhausted")
       => now - startTime >= config.buySignalTimeToWait

C17_Witness ==
  /\ AbortsOnTick /\ exitVia = "noData" /\ snap.macd = <<0>>
  /\ snap.signal = <<1>> /\ snap.len >= config.buySignalLowVolumeThreshold
  /\ now - startTime < config.buySignalTimeToWait

\* C19: a MACD field equal to 0 counts as absent: a tick with 0 < rsi < 30 and
\* macdLine > signalLine where one of the two is 0 does not fire the entry rule,
\* and past the grace deadline a tick with rsi = 0 and the MACD line 0 or absent
\* returns false whatever the signal line is.
C19_ZeroMacdCountsAsAbsent ==
  (op = "buy" /\ pc = "finally" /\ snap.kind = "data") =>
    /\ ( /\ snap.rsi > 0 /\ snap.rsi < RsiOversold
         /\ snap.macd # <<>> /\ snap.signal # <<>>
         /\ snap.macd[1] > snap.signal[1]
         /\ (snap.macd[1] = 0 \/ snap.signal[1] = 0) ) => pending # "true"
    /\ ( /\ snap.past1 /\ snap.past2 /\ snap.rsi = 0
         /\ (snap.macd = <<>> \/ snap.macd[1] = 0) ) => pending = "false"

C19_Witness ==
  /\ op = "buy" /\ pc = "finally" /\ snap.kind = "data" /\ snap.rsi = 15
  /\ snap.macd = <<0>> /\ snap.signal = <<-1>> /\ pending = "none"
  /\ ~snap.past1

\* C14 as stated: once waitForBuySignal (technical analysis enabled) has
\* returned, the registration it made is eventually marked done, also when no
\* waitForSellSignal follows.
C14_BuyWaitEndsMarkedDone ==
  (op = "buy" /\ config.useTechnicalAnalysis /\ pc = "done")
     ~> (registration = "done")

\* C15 as stated: at no time are two waitForBuySignal poll loops running on the
\* same instrument key, and no waitForSellSignal marks an instrument done while
\* a waitForBuySignal is polling on it.
C15_OneBuyWaitPerInstrument ==
  /\ \A i, j \in DOMAIN calls :
       (i # j /\ calls[i].op = "buy" /\ calls[j].op = "buy"
          /\ calls[i].pc = "polling" /\ calls[j].pc = "polling")
         => calls[i].key # calls[j].key
  /\ \A i \in DOMAIN calls : ~calls[i].overlapped

(* ====================== waitForSellSignal: claims ======================= *)

\* the poll loop ended with no quote above the target
LoopRanOut == op = "sell" /\ pc = "done" /\ exitVia \in {"autosell", "hold"}

\* C3: when the sell loop ends with no quote above the target the result is the
\* autoSellWithoutSellSignal flag: set, true and no Notifier call; not set, false
\* and exactly one Notifier call. No run that returns true calls the Notifier.
C3_FallbackFollowsFlag ==
  /\ LoopRanOut =>
       IF config.autoSellWithoutSellSignal
         THEN result = "true" /\ notifierCalls = 0
         ELSE result = "false" /\ notifierCalls = 1
  /\ (op = "sell" /\ pc = "fallback") => (result = "none" /\ notifierCalls = 0)
  /\ (op = "sell" /\ result = "true") => notifierCalls = 0

C3_Witness ==
  /\ LoopRanOut /\ ~config.autoSellWithoutSellSignal /\ result = "false"
  /\ notifierCalls = 1 /\ timesChecked >= 2

C5_FallbackWithinOneIntervalOfDeadline ==
  (op = "sell" /\ pc = "fallback") =>
    /\ slept >= config.priceCheckDuration - config.priceCheckInterval
    /\ slept <= config.priceCheckDuration + config.priceCheckInterval

\* C6: the target the quotes are compared against is
\* holding + floor(holding * takeProfitPercent / 100), holding the configured
\* quote amount: 1000 at 10% gives 1100, 1005 at 10% gives 1105.
C6_TargetIsHoldingPlusFlooredPercent ==
  (op = "sell" /\ pc \in {"quote", "while", "fallback", "notify"}) =>
    LET holding == config.quoteAmount
        profit == takeProfit - holding
    IN /\ profit * PercentBase <= holding * config.takeProfit
       /\ holding * config.takeProfit < (profit + 1) * PercentBase
       /\ (holding = 1000 /\ config.takeProfit = 10) => takeProfit = 1100
       /\ (holding = 1005 /\ config.takeProfit = 10) => takeProfit = 1105
       /\ amountOut # <<>> => (ReachedTarget(amountOut[1], takeProfit)
                                 <=> amountOut[1] > holding + profit)

C6_Witness ==
  /\ op = "sell" /\ pc = "while" /\ config.quoteAmount = 1005
  /\ config.takeProfit = 10 /\ takeProfit = 1105 /\ amountOut = <<1105>>

\* the attempts the loop may make: ceil(priceCheckDuration / priceCheckInterval)
MaxAttempts ==
  (config.priceCheckDuration + config.priceCheckInterval - 1)
     \div config.priceCheckInterval

SellEnabled == op = "sell" /\ config.priceCheckDuration # 0 /\ config.priceCheckInterval # 0

\* C11: with priceCheckDuration 0 or priceCheckInterval 0, waitForSellSignal
\* returns true in its first step with no quote request, no sleep and no Notifier
\* call, whatever autoSellWithoutSellSignal is.
C11_ZeroDurationOrIntervalReturnsTrue ==
  (op = "sell" /\ (config.priceCheckDuration = 0 \/ config.priceCheckInterval = 0))
    => /\ pc \in {"call", "done"}
       /\ pc = "done" => (result = "true" /\ ~escaped)
       /\ timesChecked = 0 /\ amountOut = <<>> /\ quoteInput = <<>>
       /\ sleeps = 0 /\ notifierCalls = 0

C11_Witness ==
  /\ op = "sell" /\ pc = "done" /\ result = "true"
  /\ config.priceCheckDuration > 0 /\ config.priceCheckInterval = 0
  /\ ~config.autoSellWithoutSellSignal

\* C12: every waitForSellSignal marks the registration done exactly once, in its
\* first step, before any quote request, also when sell checking is disabled.
C12_MarksDoneFirstAndOnce ==
  [][op = "sell" =>
       /\ cacheCalls' = 1
       /\ pc = "call" =>
            /\ cacheCalls = 0 /\ timesChecked = 0 /\ quoteInput = <<>>
            /\ registration = "active" => registration' = "done"
       /\ pc # "call" => registration' = registration]_vars

C12_Witness ==
  /\ op = "sell" /\ pc = "done" /\ exitVia = "disabled" /\ cacheCalls = 1
  /\ registration = "done"

\* C13: with sell checking enabled an invocation makes between 1 and
\* ceil(priceCheckDuration / priceCheckInterval) quote attempts; a failed attempt
\* uses up one iteration, is never a profit, ends nothing and lets no exception
\* out; a run with no quote above the target makes exactly that many attempts.
C13_AttemptsBoundedByCeil ==
  SellEnabled =>
    /\ timesChecked <= MaxAttempts
    /\ ~escaped
    /\ pc \in {"while", "fallback", "notify", "done"} => timesChecked >= 1
    /\ (pc \in {"fallback", "notify"} \/ LoopRanOut) => timesChecked = MaxAttempts
    /\ (pc = "while" /\ amountOut = <<>>) => result = "none"
    /\ exitVia = "profit" => amountOut # <<>>

C13_Witness ==
  /\ SellEnabled /\ pc = "fallback" /\ timesChecked = 2 /\ sleeps = 0
  /\ config.priceCheckDuration = 3 /\ config.priceCheckInterval = 2

\* C18: inside its loop waitForSellSignal returns true exactly on the first
\* tick whose quote is strictly above the target; a quote equal to the target
\* leaves the loop running.
C18_ProfitOnlyStrictlyAboveTarget ==
  (op = "sell" /\ amountOut # <<>>) =>
    /\ amountOut[1] > takeProfit
         <=> (pc = "done" /\ exitVia = "profit" /\ result = "true")
    /\ amountOut[1] <= takeProfit
         => (pc # "done" \/ exitVia \in {"autosell", "hold"})

C18_Witness ==
  /\ op = "sell" /\ pc = "quote" /\ amountOut = <<takeProfit>> /\ takeProfit > 0
  /\ result = "none" /\ timesChecked = 1

\* C20: the target depends on the configuration only: the target of this call
\* is the target a call with any other amountIn would have computed, so with the
\* same quotes the decisions are the same; amountIn is what the quote is asked for.
C20_TargetIndependentOfAmountIn ==
  (op = "sell" /\ pc \notin {"call"} /\ exitVia # "disabled") =>
    /\ \A other \in AmountsIn : takeProfit = SellTarget(other)
    /\ \A other \in AmountsIn, q \in QuoteChoices(takeProfit) :
         ReachedTarget(q, takeProfit) <=> ReachedTarget(q, SellTarget(other))
    /\ quoteInput # <<>> => quoteInput = <<amountIn>>

C20_Witness ==
  /\ op = "sell" /\ pc = "done" /\ exitVia = "profit" /\ amountIn = 2
  /\ config.quoteAmount = 1000 /\ takeProfit = 1100 /\ quoteInput = <<2>>
====
